---- MODULE Spec2Model ----
(***************************************************************************)
(* Order validation / transformation pipeline of app.py:                   *)
(*   StructureValidator -> NameTransformer -> PriceTransformer ->          *)
(*   CurrencyTransformer, orchestrated by OrderProcessor.process.          *)
(*                                                                         *)
(* Text values (name, price) are sequences of one-character strings.       *)
(* Characters that are not printable ASCII are written by code point:      *)
(*   "U+000A" line feed, "U+00E9" e with acute, "U+0301" combining acute,  *)
(*   "U+FF21" fullwidth capital A.                                         *)
(***************************************************************************)
EXTENDS Integers, Sequences, FiniteSets, TLC

VARIABLES
    input,          \* the record as the caller passed it (never changes)
    order,          \* the record object, mutated in place by transformers
    validator,      \* OrderProcessor.validator
    transformers,   \* OrderProcessor.transformers
    pc,             \* position of the call
    i,              \* index of the next transformer of the for loop
    executed,       \* stages whose validate / transform has been invoked
    outcome,        \* how the last invoked stage ended
    result          \* what process returned: [status, body]

vars == <<input, order, validator, transformers, pc, i, executed, outcome, result>>

----------------------------------------------------------------------------
\* Bounds of the model

MaxNameLen == 3       \* longest name text in the NameTransformer specification
MaxPriceLen == 4      \* longest price text
PipeNameLen == 1      \* longest name text in the end-to-end specification

----------------------------------------------------------------------------
\* config.py (imported as cfg; not part of the sources at hand)

MAX_PRICE == 2000
USD_TO_TWD_RATE == 31
ALLOWED_CURRENCIES == {"TWD", "USD"}

----------------------------------------------------------------------------
\* Text

RECURSIVE SeqsUpTo(_, _)
SeqsUpTo(S, n) ==
    IF n = 0 THEN {<<>>}
    ELSE LET shorter == SeqsUpTo(S, n - 1)
         IN  shorter \cup {Append(s, c) : s \in {t \in shorter : Len(t) = n - 1}, c \in S}

NameChars == {"A", "b", " ", "U+000A", "U+00E9", "U+FF21"}
PriceChars == {"0", "2", "-", "."}
Digits == <<"0", "1", "2", "3", "4", "5", "6", "7", "8", "9">>

\* unicodedata.normalize('NFKD', .) on one character
NFKDChar(c) ==
    IF c = "U+00E9" THEN <<"e", "U+0301">>
    ELSE IF c = "U+FF21" THEN <<"A">>
    ELSE <<c>>

RECURSIVE NFKD(_)
NFKD(s) == IF s = <<>> THEN <<>> ELSE NFKDChar(Head(s)) \o NFKD(Tail(s))

\* the character class [A-Za-z ]
InClass(c) == c \in {"A", "b", "e", " "}

\* re.match("^[A-Za-z ]+$", s): '$' matches at the end of the text and also
\* just before a line feed that ends the text
ReMatch(s) ==
    \E n \in 1..Len(s) :
        /\ \A k \in 1..n : InClass(s[k])
        /\ \/ n = Len(s)
           \/ n = Len(s) - 1 /\ s[Len(s)] = "U+000A"

IsUpper(c) == c \in {"A", "U+FF21"}
IsLower(c) == c \in {"b", "e", "U+00E9"}

\* str.istitle(): scan with previous_is_cased / cased
RECURSIVE IsTitleFrom(_, _, _, _)
IsTitleFrom(s, k, previous_is_cased, cased) ==
    IF k > Len(s) THEN cased
    ELSE IF IsUpper(s[k])
         THEN IF previous_is_cased THEN FALSE ELSE IsTitleFrom(s, k + 1, TRUE, TRUE)
    ELSE IF IsLower(s[k])
         THEN IF ~previous_is_cased THEN FALSE ELSE IsTitleFrom(s, k + 1, TRUE, TRUE)
    ELSE IsTitleFrom(s, k + 1, FALSE, cased)

IsTitle(s) == IsTitleFrom(s, 1, FALSE, FALSE)

DigitVal(c) == CHOOSE d \in 0..9 : Digits[d + 1] = c
IsDigit(c) == \E d \in 0..9 : Digits[d + 1] = c

RECURSIVE DigitsVal(_)
DigitsVal(s) ==
    IF s = <<>> THEN 0
    ELSE 10 * DigitsVal(SubSeq(s, 1, Len(s) - 1)) + DigitVal(s[Len(s)])

\* int(text): an optional sign and at least one digit, else ValueError
IntParse(s) ==
    LET neg  == s # <<>> /\ Head(s) = "-"
        body == IF neg THEN Tail(s) ELSE s
        ok   == body # <<>> /\ \A k \in 1..Len(body) : IsDigit(body[k])
    IN  [ok |-> ok,
         val |-> IF ~ok THEN 0 ELSE IF neg THEN 0 - DigitsVal(body) ELSE DigitsVal(body)]

RECURSIVE NatStr(_)
NatStr(n) == IF n < 10 THEN <<Digits[n + 1]>> ELSE Append(NatStr(n \div 10), Digits[(n % 10) + 1])

\* str(n)
Str(n) == IF n < 0 THEN <<"-">> \o NatStr(0 - n) ELSE NatStr(n)

----------------------------------------------------------------------------
\* Records.  A field is [type, text]; type "missing" stands for an absent key.
\* The address value carries the types of its own three entries.

Field(type, text) == [type |-> type, text |-> text]
Address(type, city, district, street) ==
    [type |-> type, city |-> [type |-> city], district |-> [type |-> district],
     street |-> [type |-> street]]

Record(type, id, name, address, price, currency) ==
    [type |-> type, id |-> id, name |-> name, address |-> address,
     price |-> price, currency |-> currency]

\* the record of the tests: "Test Order" priced "1000" in TWD, here "A", "200"
ValidAddress == Address("dict", "str", "str", "str")
ValidOrder ==
    Record("dict", Field("str", <<>>), Field("str", <<"A">>), ValidAddress,
           Field("str", <<"2", "0", "0">>), Field("str", "TWD"))

----------------------------------------------------------------------------
\* OrderProcessingError(message, error_type = "Bad Request")

error_type == "Bad Request"

MissingKeyMsg ==
    [id |-> "Missing key: id", name |-> "Missing key: name",
     address |-> "Missing key: address", city |-> "Missing key: city",
     district |-> "Missing key: district", street |-> "Missing key: street",
     price |-> "Missing key: price", currency |-> "Missing key: currency"]

InvalidTypeMsg ==
    [id |-> "Invalid type for key id", name |-> "Invalid type for key name",
     address |-> "Invalid type for key address", city |-> "Invalid type for key city",
     district |-> "Invalid type for key district", street |-> "Invalid type for key street",
     price |-> "Invalid type for key price", currency |-> "Invalid type for key currency"]

\* f"Price is over {cfg.MAX_PRICE}."
PriceOverMsg == IF MAX_PRICE = 2000 THEN "Price is over 2000." ELSE "Price is over {MAX_PRICE}."

----------------------------------------------------------------------------
\* StructureValidator

Expect(key, value_type, nested) == [key |-> key, value_type |-> value_type, nested |-> nested]

address_structure ==
    <<Expect("city", "str", <<>>), Expect("district", "str", <<>>), Expect("street", "str", <<>>)>>

expected_structure ==
    <<Expect("id", "str", <<>>), Expect("name", "str", <<>>),
      Expect("address", "dict", address_structure),
      Expect("price", "str", <<>>), Expect("currency", "str", <<>>)>>

Returned(val) == [kind |-> "return", val |-> val, exc |-> "", message |-> ""]
RaisedError(message) ==
    [kind |-> "raise", val |-> FALSE, exc |-> "OrderProcessingError", message |-> message]

RECURSIVE validate(_, _)
RECURSIVE ValidateItems(_, _, _)

\* validate with line 53 not descending: a nested shape is checked for being
\* a mapping only
RECURSIVE ValidateItemsShallow(_, _, _)
ValidateItemsShallow(order_data, expected, k) ==
    IF k > Len(expected) THEN Returned(TRUE)
    ELSE LET key == expected[k].key
             value_type == expected[k].value_type
         IN  IF order_data[key].type = "missing" THEN RaisedError(MissingKeyMsg[key])
             ELSE IF value_type = "dict"
                  THEN IF order_data[key].type # "dict"
                       THEN RaisedError("Invalid order data structure")
                       ELSE ValidateItemsShallow(order_data, expected, k + 1)
             ELSE IF order_data[key].type # value_type THEN RaisedError(InvalidTypeMsg[key])
             ELSE ValidateItemsShallow(order_data, expected, k + 1)

\* the for loop of validate, from entry k of expected on
ValidateItems(order_data, expected, k) ==
    IF k > Len(expected) THEN Returned(TRUE)
    ELSE LET key == expected[k].key
             value_type == expected[k].value_type
         IN  IF order_data[key].type = "missing" THEN RaisedError(MissingKeyMsg[key])
             ELSE IF value_type = "dict"
                  THEN LET r == validate(order_data[key], expected[k].nested)
                       IN  IF r.kind = "raise" THEN r
                           ELSE IF ~r.val THEN Returned(FALSE)
                           ELSE ValidateItems(order_data, expected, k + 1)
             ELSE IF order_data[key].type # value_type THEN RaisedError(InvalidTypeMsg[key])
             ELSE ValidateItems(order_data, expected, k + 1)

validate(order_data, expected) ==
    IF order_data.type # "dict" THEN RaisedError("Invalid order data structure")
    ELSE ValidateItems(order_data, expected, 1)

----------------------------------------------------------------------------
\* Transformers.  A call ends [kind, exc, message, order]: order is the record
\* object after the call.

Passed(order_data) ==
    [kind |-> "return", val |-> TRUE, exc |-> "", message |-> "", order |-> order_data]
Rejected(message, order_data) ==
    [kind |-> "raise", val |-> FALSE, exc |-> "OrderProcessingError", message |-> message,
     order |-> order_data]
ValueError(order_data) ==
    [kind |-> "raise", val |-> FALSE, exc |-> "ValueError", message |-> "", order |-> order_data]

NameTransformer(order_data) ==
    LET normalized_str == NFKD(order_data.name.text)
    IN  IF ~ReMatch(normalized_str)
        THEN Rejected("Name contains non-English characters.", order_data)
        ELSE IF ~IsTitle(order_data.name.text)
        THEN Rejected("Name is not capitalized.", order_data)
        ELSE Passed(order_data)

\* PriceTransformer with line 87 written >= : the maximum itself is rejected
PriceTransformerExclusiveMax(order_data) ==
    LET p == IntParse(order_data.price.text)
    IN  IF ~p.ok THEN ValueError(order_data)
        ELSE IF p.val >= MAX_PRICE THEN Rejected(PriceOverMsg, order_data)
        ELSE IF p.val < 0 THEN Rejected("Price is negative.", order_data)
        ELSE Passed(order_data)

PriceTransformer(order_data) ==
    LET p == IntParse(order_data.price.text)
    IN  IF ~p.ok THEN ValueError(order_data)
        ELSE IF p.val > MAX_PRICE THEN Rejected(PriceOverMsg, order_data)
        ELSE IF p.val < 0 THEN Rejected("Price is negative.", order_data)
        ELSE Passed(order_data)

\* CurrencyTransformer without line 107: the price is converted, the code kept
CurrencyTransformerKeepsCode(order_data) ==
    LET order_currency == order_data.currency.text
        p == IntParse(order_data.price.text)
    IN  IF order_currency \notin ALLOWED_CURRENCIES
        THEN Rejected("Currency format is wrong.", order_data)
        ELSE IF order_currency = "USD"
        THEN IF ~p.ok THEN ValueError(order_data)
             ELSE Passed([order_data EXCEPT !.price.text = Str(p.val * USD_TO_TWD_RATE)])
        ELSE Passed(order_data)

CurrencyTransformer(order_data) ==
    LET order_currency == order_data.currency.text
        p == IntParse(order_data.price.text)
    IN  IF order_currency \notin ALLOWED_CURRENCIES
        THEN Rejected("Currency format is wrong.", order_data)
        ELSE IF order_currency = "USD"
        THEN IF ~p.ok THEN ValueError(order_data)
             ELSE Passed([order_data EXCEPT
                            !.price.text = Str(p.val * USD_TO_TWD_RATE),
                            !.currency.text = "TWD"])
        ELSE Passed(order_data)

\* unittest.mock.Mock(): side_effect raises, else return_value
Stage(cls, return_value, side_effect) ==
    [cls |-> cls, return_value |-> return_value, side_effect |-> side_effect]

CallValidate(v, order_data) ==
    IF v.cls = "StructureValidator" THEN validate(order_data, expected_structure)
    ELSE IF v.side_effect # "" THEN RaisedError(v.side_effect)
    ELSE Returned(v.return_value)

CallTransform(t, order_data) ==
    IF t.cls = "NameTransformer" THEN NameTransformer(order_data)
    ELSE IF t.cls = "PriceTransformer" THEN PriceTransformer(order_data)
    ELSE IF t.cls = "CurrencyTransformer" THEN CurrencyTransformer(order_data)
    ELSE IF t.side_effect # "" THEN Rejected(t.side_effect, order_data)
    ELSE Passed(order_data)

----------------------------------------------------------------------------
\* OrderProcessor.process

NoOutcome == [kind |-> "none", val |-> FALSE, exc |-> "", message |-> ""]
Ended(out) == [kind |-> out.kind, val |-> out.val, exc |-> out.exc, message |-> out.message]
NoResult == [status |-> 0, body |-> [none |-> "none"]]
Success(order_data) ==
    [status |-> 200, body |-> [Success |-> "Order is processed.", Order_data |-> order_data]]
Failure(message) ==
    [status |-> 400, body |-> [error |-> error_type, message |-> message]]

\* line 119 testing only that validate returned, not what it returned
ValidatorReturned(out) == out.kind = "return"

\* line 119: if not self.validator.validate(order_data)
ValidatorPassed(out) == out.kind = "return" /\ out.val

\* the message of the error that leaves the validation step
ValidationError(out) == IF out.kind = "raise" THEN out.message ELSE "Invalid JSON received"

ProcessValidate ==
    /\ pc = "Received"
    /\ LET out == CallValidate(validator, order)
       IN  /\ executed' = Append(executed, validator.cls)
           /\ outcome' = Ended(out)
           /\ IF ValidatorPassed(out)
              THEN pc' = "Transforming" /\ result' = result
              ELSE pc' = "Failed" /\ result' = Failure(ValidationError(out))
    /\ i' = 1
    /\ UNCHANGED <<input, order, validator, transformers>>

\* the for loop catching the error inside the loop and going on
AfterTransformContinue(out) ==
    IF out.kind = "return" \/ out.exc = "OrderProcessingError"
    THEN [pc |-> "Transforming", result |-> NoResult]
    ELSE [pc |-> "Escaped", result |-> NoResult]

\* what one pass of the for loop does with the transformer's outcome
AfterTransform(out) ==
    IF out.kind = "return" THEN [pc |-> "Transforming", result |-> NoResult]
    ELSE IF out.exc = "OrderProcessingError"
    THEN [pc |-> "Failed", result |-> Failure(out.message)]
    ELSE [pc |-> "Escaped", result |-> NoResult]

ProcessTransform ==
    /\ pc = "Transforming"
    /\ i <= Len(transformers)
    /\ LET out == CallTransform(transformers[i], order)
           nxt == AfterTransform(out)
       IN  /\ executed' = Append(executed, transformers[i].cls)
           /\ outcome' = Ended(out)
           /\ order' = out.order
           /\ pc' = nxt.pc
           /\ result' = nxt.result
    /\ i' = i + 1
    /\ UNCHANGED <<input, validator, transformers>>

ProcessReturn ==
    /\ pc = "Transforming"
    /\ i > Len(transformers)
    /\ pc' = "Succeeded"
    /\ result' = Success(order)
    /\ UNCHANGED <<input, order, validator, transformers, i, executed, outcome>>

Next == ProcessValidate \/ ProcessTransform \/ ProcessReturn

----------------------------------------------------------------------------
\* process_order: the validator and chain every request is processed with

StructureValidator == Stage("StructureValidator", TRUE, "")

\* the chain with the conversion ahead of the price check
ConvertBeforePriceCheck ==
    <<Stage("NameTransformer", TRUE, ""), Stage("CurrencyTransformer", TRUE, ""),
      Stage("PriceTransformer", TRUE, "")>>

process_order_transformers ==
    <<Stage("NameTransformer", TRUE, ""), Stage("PriceTransformer", TRUE, ""),
      Stage("CurrencyTransformer", TRUE, "")>>

Names(n) == SeqsUpTo(NameChars, n)
Prices == SeqsUpTo(PriceChars, MaxPriceLen)
Currencies == {"TWD", "USD", "EUR"}

Types == {"str", "int", "missing"}
Missing == Field("missing", <<>>)
NonMapping ==
    Record("list", Missing, Missing, Address("missing", "missing", "missing", "missing"),
           Missing, Field("missing", ""))

\* an entry of type t: its text when it is text, none otherwise
Entry(t, text) == IF t = "str" THEN Field("str", text) ELSE Field(t, <<>>)
Code(t, text) == IF t = "str" THEN Field("str", text) ELSE Field(t, "")

Addresses ==
    {Address("str", "missing", "missing", "missing"),
     Address("missing", "missing", "missing", "missing")}
    \cup {Address("dict", c, d, s) : c \in Types, d \in Types, s \in Types}

\* request bodies of any shape: a non-mapping, or a mapping whose entries are
\* absent, wrongly typed or text
ShapeRequests ==
    {NonMapping} \cup
    {Record("dict", Entry(idt, <<>>), Entry(nt, n), a, Entry(pt, p), Code(ct, c)) :
        idt \in Types, nt \in Types, n \in {<<"A">>, <<"b">>},
        a \in {ValidAddress, Address("str", "missing", "missing", "missing"),
               Address("dict", "str", "str", "missing"), Address("dict", "int", "str", "str")},
        pt \in Types, p \in {<<"2", "0", "0">>, <<"-", "2">>},
        ct \in Types, c \in {"TWD", "EUR"}}

\* request bodies of the expected shape, with any text
TextRequests ==
    {Record("dict", Field("str", <<>>), Field("str", n), ValidAddress,
            Field("str", p), Field("str", c)) :
        n \in Names(PipeNameLen), p \in Prices, c \in Currencies}

Requests == ShapeRequests \cup TextRequests

Start(req, v, ts) ==
    /\ input = req
    /\ order = req
    /\ validator = v
    /\ transformers = ts
    /\ i = 0
    /\ executed = <<>>
    /\ outcome = NoOutcome
    /\ result = NoResult

Init ==
    /\ pc = "Received"
    /\ \E req \in Requests : Start(req, StructureValidator, process_order_transformers)

Spec == Init /\ [][Next]_vars

----------------------------------------------------------------------------
\* TestOrderProcessor: process with a Mock validator and three Mock transformers

MockMessages == {"Invalid JSON received", "Test error"}

MockValidators ==
    {Stage("MockValidator", rv, se) : rv \in BOOLEAN, se \in {""} \cup MockMessages}
MockTransformers ==
    {<<Stage("Mock1", TRUE, s1), Stage("Mock2", TRUE, s2), Stage("Mock3", TRUE, s3)>> :
        s1 \in {""} \cup MockMessages, s2 \in {""} \cup MockMessages,
        s3 \in {""} \cup MockMessages}

InitMock ==
    /\ pc = "Received"
    /\ \E v \in MockValidators, ts \in MockTransformers : Start(ValidOrder, v, ts)

SpecMock == InitMock /\ [][Next]_vars

----------------------------------------------------------------------------
\* The unit tests: one validate or transform call on one record

ValidatorInputs ==
    {NonMapping} \cup
    {Record("dict", Entry(idt, <<>>), Entry(nt, <<"A">>), a, Entry(pt, <<"2">>), Code(ct, "TWD")) :
        idt \in Types, nt \in Types, a \in Addresses, pt \in Types, ct \in Types}

NameInputs == {[ValidOrder EXCEPT !.name.text = n] : n \in Names(MaxNameLen)}

PriceInputs ==
    {[ValidOrder EXCEPT !.price.text = p, !.currency.text = c] :
        p \in Prices, c \in Currencies}

UnitValidate ==
    /\ pc = "CallValidate"
    /\ LET out == CallValidate(validator, order)
       IN  /\ executed' = Append(executed, validator.cls)
           /\ outcome' = Ended(out)
    /\ pc' = "Done"
    /\ UNCHANGED <<input, order, validator, transformers, i, result>>

UnitTransform ==
    /\ pc = "CallTransform"
    /\ LET out == CallTransform(transformers[1], order)
       IN  /\ executed' = Append(executed, transformers[1].cls)
           /\ outcome' = Ended(out)
           /\ order' = out.order
    /\ pc' = "Done"
    /\ UNCHANGED <<input, validator, transformers, i, result>>

InitUnit ==
    \/ /\ pc = "CallValidate"
       /\ \E req \in ValidatorInputs : Start(req, StructureValidator, <<>>)
    \/ /\ pc = "CallTransform"
       /\ \/ \E req \in NameInputs :
                Start(req, StructureValidator, <<Stage("NameTransformer", TRUE, "")>>)
          \/ \E req \in PriceInputs, cls \in {"PriceTransformer", "CurrencyTransformer"} :
                Start(req, StructureValidator, <<Stage(cls, TRUE, "")>>)

NextUnit == UnitValidate \/ UnitTransform

SpecUnit == InitUnit /\ [][NextUnit]_vars

----------------------------------------------------------------------------
\* Vocabulary of the properties

IsPrefix(s, t) == Len(s) <= Len(t) /\ \A k \in 1..Len(s) : s[k] = t[k]

StageOrder == <<"StructureValidator", "NameTransformer", "PriceTransformer", "CurrencyTransformer">>

\* stage k, run on its own on record rec, rejects it
StageFails(k, rec) ==
    IF k = 1 THEN ~ValidatorPassed(validate(rec, expected_structure))
    ELSE IF k = 2 THEN rec.name.type = "str" /\ NameTransformer(rec).kind = "raise"
    ELSE IF k = 3 THEN rec.price.type = "str" /\ PriceTransformer(rec).kind = "raise"
    ELSE rec.price.type = "str" /\ rec.currency.type = "str"
         /\ CurrencyTransformer(rec).kind = "raise"

StageMessage(k, rec) ==
    IF k = 1 THEN ValidationError(validate(rec, expected_structure))
    ELSE IF k = 2 THEN NameTransformer(rec).message
    ELSE IF k = 3 THEN PriceTransformer(rec).message
    ELSE CurrencyTransformer(rec).message

FailingStages(rec) == {k \in 1..4 : StageFails(k, rec)}
EarliestFailing(rec) == CHOOSE k \in FailingStages(rec) : \A j \in FailingStages(rec) : k <= j

IsFailure(r) ==
    /\ r.status = 400
    /\ DOMAIN r.body = {"error", "message"}
    /\ r.body.error = "Bad Request"

IsSuccess(r) ==
    /\ r.status = 200
    /\ DOMAIN r.body = {"Success", "Order_data"}
    /\ r.body.Success = "Order is processed."

PriceMessages == {PriceOverMsg, "Price is negative."}

----------------------------------------------------------------------------
\* C1: process runs the stages in the order StructureValidator,
\* NameTransformer, PriceTransformer, CurrencyTransformer and stops at the
\* first stage that raises: the error returned is the one of the earliest
\* stage that rejects the input, and no stage runs after a stage has raised.
C1_FirstErrorInChainOrder ==
    /\ IsPrefix(executed, StageOrder)
    /\ outcome.kind = "raise" => pc \in {"Failed", "Escaped"}
    /\ pc \in {"Failed", "Escaped"} =>
          /\ FailingStages(input) # {}
          /\ Len(executed) = EarliestFailing(input)
    /\ pc = "Failed" =>
          /\ IsFailure(result)
          /\ result.body.message = StageMessage(EarliestFailing(input), input)

\* a record that three stages reject was reported with the first one's error
C1_Witness ==
    /\ pc = "Failed"
    /\ Cardinality(FailingStages(input)) >= 3
    /\ 1 \notin FailingStages(input)
    /\ executed = <<"StructureValidator", "NameTransformer">>

\* C2: every request ends Succeeded with the success body and 200, or Failed
\* with the failure body and 400; no error leaves process untranslated.
C2_OnlyTwoOutcomes ==
    /\ pc # "Escaped"
    /\ pc = "Succeeded" => IsSuccess(result) /\ result.body.Order_data = order
    /\ pc = "Failed" => IsFailure(result)
    /\ pc \in {"Succeeded", "Failed"} \/ ENABLED Next

\* C3: in every Succeeded outcome the returned price is the text of a
\* non-negative integer and the returned currency is TWD.
C3_SucceededIsCanonical ==
    pc = "Succeeded" =>
        LET rec == result.body.Order_data
            p == IntParse(rec.price.text)
        IN  /\ rec.currency.text = "TWD"
            /\ p.ok
            /\ p.val >= 0

\* a USD order went through the whole chain
C3_Witness ==
    /\ pc = "Succeeded"
    /\ input.currency.text = "USD"
    /\ IntParse(input.price.text).val > 0

\* C9: when process ends Failed with a price error, the caller's record still
\* holds the price and currency it was passed with.
C9_PriceRejectedNotConverted ==
    (pc = "Failed" /\ result.body.message \in PriceMessages) =>
        /\ order.price = input.price
        /\ order.currency = input.currency
        /\ "CurrencyTransformer" \notin {executed[k] : k \in 1..Len(executed)}

\* a USD order was rejected for its price
C9_Witness ==
    /\ pc = "Failed"
    /\ result.body.message \in PriceMessages
    /\ input.currency.text = "USD"

\* C10: when the validator raises, process ends Failed with the validator's
\* message; when it returns false without raising, process ends Failed with
\* "Invalid JSON received" and category "Bad Request"; no transform is invoked
\* in either case.
C10_ValidationGate ==
    (pc # "Received" /\ (validator.side_effect # "" \/ ~validator.return_value)) =>
        /\ pc = "Failed"
        /\ IsFailure(result)
        /\ executed = <<validator.cls>>
        /\ result.body.message =
              IF validator.side_effect # "" THEN validator.side_effect
              ELSE "Invalid JSON received"

\* the validator returned false without raising, before transformers that
\* would all have passed
C10_Witness ==
    /\ pc = "Failed"
    /\ validator.side_effect = ""
    /\ ~validator.return_value
    /\ \A k \in 1..Len(transformers) : transformers[k].side_effect = ""
    /\ result.body.message = "Invalid JSON received"

----------------------------------------------------------------------------
\* Vocabulary of the properties about single calls

Called(cls) == pc = "Done" /\ executed = <<cls>>

RaisedWith(message) ==
    outcome.kind = "raise" /\ outcome.exc = "OrderProcessingError" /\ outcome.message = message

ReturnedUnchanged == outcome.kind = "return" /\ order = input

\* the expected shape, flattened in declaration order
FlatKeys == <<"id", "name", "address", "city", "district", "street", "price", "currency">>
NestedKeys == {"city", "district", "street"}

TypeOf(rec, key) == IF key \in NestedKeys THEN rec.address[key].type ELSE rec[key].type
ExpectedType(key) == IF key = "address" THEN "dict" ELSE "str"

\* entry k of the flattened shape is absent or of the wrong type; the entries
\* of address count only when address is a mapping
ViolatedAt(rec, k) ==
    /\ FlatKeys[k] \in NestedKeys => rec.address.type = "dict"
    /\ TypeOf(rec, FlatKeys[k]) # ExpectedType(FlatKeys[k])

Violations(rec) == {k \in 1..Len(FlatKeys) : ViolatedAt(rec, k)}
FirstViolation(rec) == CHOOSE k \in Violations(rec) : \A j \in Violations(rec) : k <= j

KeyMessage(rec, k) ==
    IF TypeOf(rec, FlatKeys[k]) = "missing" THEN MissingKeyMsg[FlatKeys[k]]
    ELSE InvalidTypeMsg[FlatKeys[k]]

\* C4 as stated: validate returns true exactly for a mapping of the expected
\* shape; otherwise it raises, and for a mapping the message names the key of
\* the first violation in declaration order ("Missing key: k" or "Invalid
\* type for key k"), the entries of address coming before price and currency.
C4_MessageNamesFirstKey ==
    Called("StructureValidator") =>
        IF input.type = "dict" /\ Violations(input) = {}
        THEN outcome.kind = "return" /\ outcome.val
        ELSE /\ outcome.kind = "raise"
             /\ outcome.exc = "OrderProcessingError"
             /\ input.type = "dict" =>
                   outcome.message = KeyMessage(input, FirstViolation(input))

\* C4 as the code has it: the same, except that an address entry that is
\* present but is not a mapping is reported as "Invalid order data structure",
\* the message of a record that is not a mapping, which names no key.
C4_FirstViolationReported ==
    Called("StructureValidator") =>
        IF input.type = "dict" /\ Violations(input) = {}
        THEN outcome.kind = "return" /\ outcome.val
        ELSE /\ outcome.kind = "raise"
             /\ outcome.exc = "OrderProcessingError"
             /\ outcome.message =
                   IF input.type # "dict" THEN "Invalid order data structure"
                   ELSE LET k == FirstViolation(input)
                        IN  IF FlatKeys[k] = "address" /\ input.address.type # "missing"
                            THEN "Invalid order data structure"
                            ELSE KeyMessage(input, k)

\* a record whose address lacks street and whose price and currency are
\* wrong as well was rejected for street
C4_Witness ==
    /\ Called("StructureValidator")
    /\ input.address.type = "dict"
    /\ input.address.street.type = "missing"
    /\ input.price.type = "int"
    /\ input.currency.type = "missing"
    /\ RaisedWith("Missing key: street")

\* decimal texts: an optional sign and digits, with at most one point between
\* two of them
PointsOf(s) == {k \in 1..Len(s) : s[k] = "."}
Unsigned(s) == IF s # <<>> /\ Head(s) = "-" THEN Tail(s) ELSE s
IsDecimal(s) ==
    LET u == Unsigned(s)
    IN  /\ u # <<>>
        /\ \A k \in 1..Len(u) : IsDigit(u[k]) \/ u[k] = "."
        /\ Cardinality(PointsOf(u)) <= 1
        /\ IsDigit(u[1]) /\ IsDigit(u[Len(u)])
Negative(s) == s # <<>> /\ Head(s) = "-"
FractionDigits(s) ==
    LET u == Unsigned(s)
    IN  IF PointsOf(u) = {} THEN 0 ELSE Len(u) - (CHOOSE k \in PointsOf(u) : TRUE)
AllDigits(s) == DigitsVal(SelectSeq(Unsigned(s), IsDigit))

RECURSIVE Pow10(_)
Pow10(n) == IF n = 0 THEN 1 ELSE 10 * Pow10(n - 1)

\* round(num / den), ties to even, for num >= 0
RoundDiv(num, den) ==
    LET q == num \div den
        r == num % den
    IN  IF 2 * r > den \/ (2 * r = den /\ q % 2 = 1) THEN q + 1 ELSE q

\* round(parsedPrice * rate) of a decimal text
Converted(s, rate) ==
    LET m == RoundDiv(AllDigits(s) * rate, Pow10(FractionDigits(s)))
    IN  IF Negative(s) THEN 0 - m ELSE m

\* C5: CurrencyTransformer rejects a currency outside the allow-list with
\* "Currency format is wrong."; for USD it rewrites price to the text of
\* round(parsedPrice * rate) and currency to TWD; for TWD it returns the
\* record unchanged.
C5_ConvertsEveryUsdPrice ==
    Called("CurrencyTransformer") =>
        IF input.currency.text \notin ALLOWED_CURRENCIES
        THEN RaisedWith("Currency format is wrong.") /\ order = input
        ELSE IF input.currency.text = "USD"
        THEN IsDecimal(input.price.text) =>
                /\ outcome.kind = "return"
                /\ order.currency.text = "TWD"
                /\ order.price.text = Str(Converted(input.price.text, USD_TO_TWD_RATE))
        ELSE ReturnedUnchanged

DecimalPlaces == [TWD |-> 0, USD |-> 2]

\* C7: PriceTransformer applies the decimal-place policy of the record's own
\* currency: a TWD price with a fractional part is rejected with "Price has
\* decimal places.", a USD price with at most 2 fractional digits is returned
\* unchanged, a USD price with more is rejected with "Price decimal places
\* are wrong."  (Stated for prices within the bounds 0..max.)
C7_DecimalPolicy ==
    (/\ Called("PriceTransformer")
     /\ input.currency.text \in DOMAIN DecimalPlaces
     /\ IsDecimal(input.price.text)
     /\ FractionDigits(input.price.text) >= 1
     /\ ~Negative(input.price.text)
     /\ AllDigits(input.price.text) < MAX_PRICE) =>
        LET allowed == DecimalPlaces[input.currency.text]
        IN  IF FractionDigits(input.price.text) <= allowed THEN ReturnedUnchanged
            ELSE IF allowed = 0 THEN RaisedWith("Price has decimal places.")
            ELSE RaisedWith("Price decimal places are wrong.")

\* the letters and space of the name alphabet; a word is a run without space
EnglishChars == {"A", "b", " "}
WordStart(s, k) == k = 1 \/ s[k - 1] = " "
Capitalized(s) ==
    \A k \in 1..Len(s) :
        s[k] # " " => IF WordStart(s, k) THEN s[k] = "A" ELSE s[k] = "b"

\* C8: NameTransformer raises "Name contains non-English characters." for a
\* name with any character outside A-Z, a-z and space; else "Name is not
\* capitalized." when some word is not one uppercase letter followed by
\* lowercase letters only; else returns the record unchanged.  (Stated for
\* names that have a word, i.e. a character other than space.)
C8_NameRules ==
    (Called("NameTransformer") /\ \E k \in 1..Len(input.name.text) : input.name.text[k] # " ") =>
        LET name == input.name.text
        IN  /\ order = input
            /\ IF \E k \in 1..Len(name) : name[k] \notin EnglishChars
               THEN RaisedWith("Name contains non-English characters.")
               ELSE IF ~Capitalized(name) THEN RaisedWith("Name is not capitalized.")
               ELSE outcome.kind = "return"

====
